---- MODULE Spec2Model ----
(***************************************************************************)
(* Model of the pose-scoring pipeline and the step sequencing of           *)
(* src/src/pages/WorkoutSession.tsx (component WorkoutSession).            *)
(*                                                                         *)
(* Numbers.  Angles are whole degrees.  A normalised error n = diff/t is   *)
(* held as the integer n*NormUnit (every tolerance of the catalogue        *)
(* divides NormUnit, so the division is exact).  Coverage is held as the   *)
(* pair (visibleCount, expected).  null is the value Null.                 *)
(***************************************************************************)
EXTENDS Integers, Sequences, FiniteSets, TLC

\* ------------------------------------------------------------------------
\* Bounds of the model
\* ------------------------------------------------------------------------
NumSteps == 2
MaxFrames == 1
MaxPipelineFrames == 2
MaxAggLen == 6
MaxFetch == 2
MaxFaults == 2
MaxClicks == 1

\* ------------------------------------------------------------------------
\* Program constants
\* ------------------------------------------------------------------------
Null == -1
NormUnit == 60
SmootherN == 7
ScoreBufCap == 600
DefaultTol == 12
DefaultWeight == 1

LEFT_SHOULDER == 11
RIGHT_SHOULDER == 12
LEFT_ELBOW == 13
RIGHT_ELBOW == 14
LEFT_WRIST == 15
RIGHT_WRIST == 16
LEFT_HIP == 23
RIGHT_HIP == 24
LEFT_KNEE == 25
RIGHT_KNEE == 26
LEFT_ANKLE == 27
RIGHT_ANKLE == 28

\* the landmarks the pipeline reads (the other indices of L are never read
\* by the scoring path)
Landmarks ==
  {LEFT_SHOULDER, RIGHT_SHOULDER, LEFT_ELBOW, RIGHT_ELBOW, LEFT_WRIST,
   RIGHT_WRIST, LEFT_HIP, RIGHT_HIP, LEFT_KNEE, RIGHT_KNEE, LEFT_ANKLE,
   RIGHT_ANKLE}

Anchors == {LEFT_HIP, RIGHT_HIP, LEFT_SHOULDER, RIGHT_SHOULDER}

JOINT_LM ==
  [left_elbow |-> {LEFT_SHOULDER, LEFT_ELBOW, LEFT_WRIST},
   right_elbow |-> {RIGHT_SHOULDER, RIGHT_ELBOW, RIGHT_WRIST},
   left_knee |-> {LEFT_HIP, LEFT_KNEE, LEFT_ANKLE},
   right_knee |-> {RIGHT_HIP, RIGHT_KNEE, RIGHT_ANKLE},
   left_shoulder |-> {LEFT_ELBOW, LEFT_SHOULDER, LEFT_HIP},
   right_shoulder |-> {RIGHT_ELBOW, RIGHT_SHOULDER, RIGHT_HIP},
   left_hip |-> {LEFT_SHOULDER, LEFT_HIP, LEFT_KNEE},
   right_hip |-> {RIGHT_SHOULDER, RIGHT_HIP, RIGHT_KNEE},
   spine_tilt |-> {LEFT_SHOULDER, RIGHT_SHOULDER, LEFT_HIP, RIGHT_HIP}]

\* the keys of the object extractAngles returns
Joints == DOMAIN JOINT_LM

\* ------------------------------------------------------------------------
\* Small helpers
\* ------------------------------------------------------------------------
Min(a, b) == IF a < b THEN a ELSE b
Max(a, b) == IF a > b THEN a ELSE b
Abs(a) == IF a < 0 THEN 0 - a ELSE a

\* Math.round of the non-negative rational num/den
RoundDiv(num, den) == (2 * num + den) \div (2 * den)

RECURSIVE InsertAsc(_, _)
InsertAsc(s, v) ==
  IF s = <<>> THEN <<v>>
  ELSE IF v < Head(s) THEN <<v>> \o s
  ELSE <<Head(s)>> \o InsertAsc(Tail(s), v)

\* [...buf].sort((a, b) => a - b)
RECURSIVE SortAsc(_)
SortAsc(s) ==
  IF s = <<>> THEN <<>> ELSE InsertAsc(SortAsc(SubSeq(s, 1, Len(s) - 1)), s[Len(s)])

\* s[Math.floor((s.length - 1) / 2)] of a sorted non-empty array
LowerMiddle(s) == s[((Len(s) - 1) \div 2) + 1]

RECURSIVE SumSeq(_)
SumSeq(s) == IF s = <<>> THEN 0 ELSE Head(s) + SumSeq(Tail(s))

\* ------------------------------------------------------------------------
\* wrapDiff
\* ------------------------------------------------------------------------
\* a variant that does not fold the upper half back
wrapDiffNoFold(a, b) == Abs(a - b) % 360

wrapDiff(a, b) ==
  LET d == Abs(a - b) % 360
  IN  IF d > 180 THEN 360 - d ELSE d

\* ------------------------------------------------------------------------
\* useAngleSmoother: push and reset on the Map of buffers.  A joint without
\* an entry in the Map has the empty buffer.
\* ------------------------------------------------------------------------
EmptyBuffers == [k \in Joints |-> <<>>]

\* a variant that never drops a sample
SmootherKeepAll(buf) == buf

SmootherShift(buf) == IF Len(buf) > SmootherN THEN Tail(buf) ELSE buf

pushBuf(buf, v) == SmootherShift(Append(buf, v))

pushMedian(buf, v) == LowerMiddle(SortAsc(pushBuf(buf, v)))

\* ------------------------------------------------------------------------
\* visOK: every required landmark has visibility >= 0.5.  lowVis is the set
\* of landmarks whose visibility is below the threshold.
\* ------------------------------------------------------------------------
\* a variant that is content with one visible landmark
visOKSome(names, lowVis) == ~(names \subseteq lowVis)

visOK(names, lowVis) == names \cap lowVis = {}

\* ------------------------------------------------------------------------
\* Math.round(100 * Math.pow(sRaw, 0.6)) for sRaw = p/q in [0,1].
\* LiftThreshold[s] is the least sRaw (in millionths) that rounds to s or
\* more, so the result is the number of thresholds at or below sRaw.
\* ------------------------------------------------------------------------
LiftThreshold ==
  <<147, 913, 2138, 3745, 5694, 7955, 10509, 13339, 16433, 19780,
    23370, 27196, 31250, 35527, 40021, 44726, 49638, 54752, 60065, 65573,
    71273, 77161, 83235, 89492, 95928, 102542, 109331, 116294, 123427, 130729,
    138198, 145832, 153629, 161588, 169707, 177984, 186419, 195008, 203752, 212649,
    221697, 230895, 240242, 249737, 259379, 269166, 279097, 289172, 299390, 309749,
    320248, 330887, 341664, 352579, 363631, 374820, 386143, 397601, 409192, 420916,
    432772, 444760, 456878, 469127, 481504, 494010, 506644, 519406, 532294, 545308,
    558447, 571712, 585100, 598613, 612248, 626006, 639886, 653888, 668010, 682253,
    696616, 711098, 725700, 740419, 755257, 770212, 785285, 800474, 815779, 831200,
    846736, 862387, 878152, 894032, 910025, 926131, 942350, 958682, 975126, 991681>>

Lift(p, q) ==
  Cardinality({s \in DOMAIN LiftThreshold : p * 1000000 >= LiftThreshold[s] * q})

\* ------------------------------------------------------------------------
\* Pose templates.  keys is Object.keys(angles_deg) in insertion order;
\* tolerance_deg and weights may lack entries; landmarks says whether the
\* template carries reference landmarks.
\* ------------------------------------------------------------------------
TplTwo ==
  [pose_id |-> "two",
   keys |-> <<"left_elbow", "left_knee">>,
   angles_deg |-> [left_elbow |-> 90, left_knee |-> 170],
   tolerance_deg |-> [left_elbow |-> 15, left_knee |-> 20],
   weights |-> [left_elbow |-> 1, left_knee |-> 1],
   landmarks |-> FALSE]

TplOne ==
  [pose_id |-> "one",
   keys |-> <<"left_elbow">>,
   angles_deg |-> [left_elbow |-> 90],
   tolerance_deg |-> << >>,
   weights |-> << >>,
   landmarks |-> TRUE]

TplThree ==
  [pose_id |-> "three",
   keys |-> <<"left_knee", "left_elbow", "spine_tilt">>,
   angles_deg |-> [left_knee |-> 170, left_elbow |-> 90, spine_tilt |-> 0],
   tolerance_deg |-> [left_knee |-> 20, left_elbow |-> 15, spine_tilt |-> 10],
   weights |-> [left_knee |-> 1, left_elbow |-> 2],
   landmarks |-> TRUE]

Lookup(f, k, default) == IF k \in DOMAIN f THEN f[k] ELSE default

\* ------------------------------------------------------------------------
\* scoreAgainstTemplate
\* ------------------------------------------------------------------------
\* one row [joint, diffDeg, normErr, tolDeg, weight]
Row(userAngles, tpl, k) ==
  LET diff == wrapDiff(userAngles[k], tpl.angles_deg[k])
      t == Lookup(tpl.tolerance_deg, k, DefaultTol)
      w == Lookup(tpl.weights, k, DefaultWeight)
      \* Math.max(1e-6, tol): a tolerance of 0 makes any non-zero diff cap at 1
      n == IF t <= 0 THEN (IF diff > 0 THEN NormUnit ELSE 0)
           ELSE Min((diff * NormUnit) \div t, NormUnit)
  IN  [joint |-> k, diff |-> diff, n |-> n, t |-> t, w |-> w]

\* a variant without the gate
GatedNever(userAngles, k, lowVis) == FALSE

\* the gate of the loop over refKeys
Gated(userAngles, k, lowVis) ==
  \/ k \notin DOMAIN userAngles
  \/ (k \in DOMAIN JOINT_LM /\ ~visOK(JOINT_LM[k], lowVis))

RECURSIVE BuildRows(_, _, _, _)
BuildRows(userAngles, tpl, lowVis, keys) ==
  IF keys = <<>> THEN <<>>
  ELSE LET k == Head(keys)
           rest == BuildRows(userAngles, tpl, lowVis, Tail(keys))
       IN  IF Gated(userAngles, k, lowVis) THEN rest
           ELSE <<Row(userAngles, tpl, k)>> \o rest

\* rows.sort((a, b) => b[2] - a[2]): stable, descending by normErr
RECURSIVE InsertDesc(_, _)
InsertDesc(s, r) ==
  IF s = <<>> THEN <<r>>
  ELSE IF r.n > Head(s).n THEN <<r>> \o s
  ELSE <<Head(s)>> \o InsertDesc(Tail(s), r)

RECURSIVE SortRowsDesc(_)
SortRowsDesc(rows) ==
  IF rows = <<>> THEN <<>>
  ELSE InsertDesc(SortRowsDesc(SubSeq(rows, 1, Len(rows) - 1)), rows[Len(rows)])

\* a variant that trims nothing: const used = rows
TrimNone(sorted) == sorted

\* const used = rows.slice(1)
TrimWorst(sorted) == Tail(sorted)

RECURSIVE SumNW(_)
SumNW(rows) == IF rows = <<>> THEN 0 ELSE Head(rows).n * Head(rows).w + SumNW(Tail(rows))

RECURSIVE SumW(_)
SumW(rows) == IF rows = <<>> THEN 0 ELSE Head(rows).w + SumW(Tail(rows))

\* mae = den ? num / den : 1;  score = round(100 * max(0, 1 - mae)^0.6)
ScoreOfUsed(used) ==
  LET num == SumNW(used)
      den == SumW(used)
  IN  IF den = 0 THEN Lift(0, 1)
      ELSE Lift(Max(0, NormUnit * den - num), NormUnit * den)

scoreAgainstTemplate(userAngles, tpl, lowVis) ==
  LET rows == BuildRows(userAngles, tpl, lowVis, tpl.keys)
      expected == Len(tpl.keys)
      sorted == SortRowsDesc(rows)
      used == TrimWorst(sorted)
  IN  IF rows = <<>>
      THEN [score |-> Null, rows |-> <<>>, used |-> <<>>,
            visibleCount |-> 0, expected |-> expected]
      ELSE [score |-> ScoreOfUsed(used), rows |-> sorted, used |-> used,
            visibleCount |-> Len(rows), expected |-> expected]

\* rows.forEach(([k, , n]) => (jointErr[k] = n))
jointErr(rows) ==
  [k \in {rows[i].joint : i \in DOMAIN rows} |->
     (CHOOSE r \in {rows[i] : i \in DOMAIN rows} : r.joint = k).n]

\* drawSkeletonColored: the colour of the segments of a joint, from its
\* normalized error (0 for a joint without entry)
pickColor(err, keyGuess) ==
  LET n == IF keyGuess \in DOMAIN err THEN err[keyGuess] ELSE 0
  IN  IF n <= NormUnit THEN "good"
      ELSE IF n <= 2 * NormUnit THEN "caution"
      ELSE "poor"

\* ------------------------------------------------------------------------
\* aggregateScore
\* ------------------------------------------------------------------------
\* a variant that takes the top half: Math.floor(vals.length * 0.5)
TopStartHalf(n) == n \div 2

\* Math.floor(vals.length * 0.7)
TopStart(n) == (n * 7) \div 10

aggregateScore(frames) ==
  IF frames = <<>> THEN Null
  ELSE LET vals == SortAsc(frames)
           start == TopStart(Len(vals))
           top == SubSeq(vals, start + 1, Len(vals))
       IN  IF top = <<>> THEN vals[(Len(vals) \div 2) + 1]
           ELSE LowerMiddle(top)


\* ------------------------------------------------------------------------
\* The component WorkoutSession
\*   st        the React state (useState cells and the context's
\*             cameraStatus), holding the latest queued values
\*   ref       the useRef cells
\*   rendered  the state the last committed render saw: the values captured
\*             by the closures of that render
\*   env       timers, timeouts, requests and camera pipelines in flight
\*   hist      what the last operation was and did (history)
\*   fn        input and output of a pure function under test
\* ------------------------------------------------------------------------
VARIABLES st, ref, rendered, env, hist, fn

vars == <<st, ref, rendered, env, hist, fn>>

Steps == 0 .. (NumSteps - 1)

NoTpl == "none"

Tpl(id) ==
  CASE id = "one" -> TplOne
    [] id = "two" -> TplTwo
    [] id = "three" -> TplThree

\* what GET /poses/search and GET /poses/:id may deliver for exercise idx
SearchResult(idx) == IF idx = 0 THEN {"two", "one"} ELSE {"one"}
FirstResult(idx) == IF idx = 0 THEN "two" ELSE "one"

\* parseDurationToSeconds of the exercises of the workout ("10 sec")
MinStepSeconds == 10
parseDurationToSeconds(idx) == MinStepSeconds

\* sessionData?.templates?.[currentStep] ?? null
TemplateAt(templates, step) ==
  IF step + 1 \in DOMAIN templates THEN templates[step + 1] ELSE NoTpl

\* the template object of the current step: two steps never share an
\* object, even when both hold the same pose.  A second answer for a step
\* with the same pose counts as the same object: the effects compute the
\* same values from it.
NoCurrent == [at |-> Null, id |-> NoTpl]

currentTemplate(s) ==
  IF TemplateAt(s.sessionData, s.currentStep) = NoTpl THEN NoCurrent
  ELSE [at |-> s.currentStep, id |-> TemplateAt(s.sessionData, s.currentStep)]

\* sessionData?.templates?.length || workout?.exercises?.length || 0
totalSteps(s) == IF Len(s.sessionData) > 0 THEN Len(s.sessionData) ELSE NumSteps

NullArray == [i \in 1 .. NumSteps |-> Null]

\* feedback texts
Fb(kind, missing, tips) == [kind |-> kind, missing |-> missing, tips |-> tips]
FbPosition == Fb("position", {}, <<>>)
FbComplete == Fb("complete", {}, <<>>)

\* ---- frames delivered by the pose detector ----
AnglesOf(elbow, knee, spine) ==
  [k \in Joints |->
     CASE k = "left_elbow" -> elbow
       [] k = "left_knee" -> knee
       [] k = "right_knee" -> 170
       [] k = "spine_tilt" -> spine
       [] OTHER -> 90]

AnglesWithElbow(e) == AnglesOf(e, 170, 0)

FrameOf(present, lowVis, elbow, bone, embed) ==
  [lm |-> TRUE, present |-> present, lowVis |-> lowVis,
   angles |-> AnglesWithElbow(elbow), bone |-> bone, embed |-> embed]

NoPoseFrame ==
  [lm |-> FALSE, present |-> {}, lowVis |-> {},
   angles |-> AnglesWithElbow(90), bone |-> 0, embed |-> 0]

\* frames of the session specification: the whole body in view
SessionFrames == {FrameOf(Landmarks, {}, e, 80, 60) : e \in {90, 120}}

\* frames of the pipeline specification: no pose, anchors missing, another
\* landmark missing, a limb of the template hidden, the elbow on and off
\* the reference
PipelineFrames ==
  {NoPoseFrame}
  \cup {FrameOf(Landmarks \ gone, {}, 90, 80, 60) :
          gone \in {{LEFT_HIP, RIGHT_HIP}, {LEFT_SHOULDER}, {LEFT_ANKLE}}}
  \cup {FrameOf(Landmarks, low, e, 80, 60) :
          low \in {{}, {LEFT_WRIST}}, e \in {90, 120}}

\* ---- normalizeXY: null unless the four anchors are there ----
\* a variant that asks for the hips only
normalizeXYHipsOnly(present) == {LEFT_HIP, RIGHT_HIP} \subseteq present

normalizeXY(present) == Anchors \subseteq present

\* extractAngles reads .x of every landmark of Landmarks
extractAnglesThrows(present) == ~(Landmarks \subseteq present)

\* ---- stages of pose.onResults ----
Blend(sAngle, sBone, sEmbed) ==
  IF sAngle # Null THEN RoundDiv(60 * sAngle + 25 * sBone + 15 * sEmbed, 100)
  ELSE IF sBone # 0 \/ sEmbed # 0 THEN RoundDiv(65 * sBone + 35 * sEmbed, 100)
  ELSE Null

\* a variant without the penalty
CoveragePenaltyNone(finalScore, v, e) == finalScore

\* the penalty without the lower clamp of covFactor
CoveragePenaltyUnclamped(finalScore, v, e) ==
  IF finalScore = Null THEN Null
  ELSE IF e = 0 THEN 0
  ELSE RoundDiv(finalScore * Min(e, 4 * v - 3 * e), e)

\* covFactor = clamp((coverage - 0.75) / 0.25, 0, 1), coverage = v / e
CoveragePenalty(finalScore, v, e) ==
  IF finalScore = Null THEN Null
  ELSE IF e = 0 THEN 0
  ELSE RoundDiv(finalScore * Max(0, Min(e, 4 * v - 3 * e)), e)

Ema(prev, finalScore) ==
  IF prev = Null THEN finalScore ELSE RoundDiv(finalScore + 3 * prev, 4)

\* a variant that drops the newest values
CapBack(buf, cap) == IF Len(buf) > cap THEN SubSeq(buf, 1, cap) ELSE buf

CapFront(buf, cap) ==
  IF Len(buf) > cap THEN SubSeq(buf, Len(buf) - cap + 1, Len(buf)) ELSE buf

\* buf.push(ema); if (buf.length > 600) buf.splice(0, buf.length - 600)
PushScore(buf, ema) == CapFront(Append(buf, ema), ScoreBufCap)

\* coverage >= 0.85
HighCoverage(v, e) == e > 0 /\ 20 * v >= 17 * e

LIMB_GROUPS ==
  [left_arm |-> {LEFT_SHOULDER, LEFT_ELBOW, LEFT_WRIST},
   right_arm |-> {RIGHT_SHOULDER, RIGHT_ELBOW, RIGHT_WRIST},
   left_leg |-> {LEFT_HIP, LEFT_KNEE, LEFT_ANKLE},
   right_leg |-> {RIGHT_HIP, RIGHT_KNEE, RIGHT_ANKLE},
   torso |-> {LEFT_SHOULDER, RIGHT_SHOULDER, LEFT_HIP, RIGHT_HIP}]

missingLimbGroups(lowVis) ==
  {g \in DOMAIN LIMB_GROUPS : ~visOK(LIMB_GROUPS[g], lowVis)}

\* sorted.filter((r) => r[2] >= 0.6).slice(0, 2)
Material(rows) == SelectSeq(rows, LAMBDA r : 10 * r.n >= 6 * NormUnit)

\* a variant that keeps three issues
TopIssuesThree(rows) == SubSeq(Material(rows), 1, Min(3, Len(Material(rows))))

TopIssues(rows) == SubSeq(Material(rows), 1, Min(2, Len(Material(rows))))

Tip(tpl, angles, r) == [joint |-> r.joint, delta |-> tpl.angles_deg[r.joint] - angles[r.joint]]

FeedbackFor(res, lowVis, tpl, angles) ==
  LET missing == missingLimbGroups(lowVis)
      top == TopIssues(res.rows)
  IN  IF 10 * res.visibleCount < 6 * res.expected \/ res.expected = 0
         \/ Cardinality(missing) >= 2
      THEN Fb("moveBack", missing, <<>>)
      ELSE IF res.rows # <<>>
      THEN IF top = <<>> THEN Fb("nice", {}, <<>>)
           ELSE Fb("tips", {}, [i \in 1 .. Len(top) |-> Tip(tpl, angles, top[i])])
      ELSE Fb("find", {}, <<>>)

\* the score buffer after a frame that emits ema at coverage v / e
scoreBufferNext(buf, ema, v, e) ==
  IF ema # Null /\ HighCoverage(v, e) THEN PushScore(buf, ema) ELSE buf

\* everything one frame computes, for the template tplId and the frame f
FrameResult(cur, f) ==
  LET tpl == Tpl(cur.id)
      angles == [k \in Joints |-> pushMedian(ref.buffers[k], f.angles[k])]
      res == scoreAgainstTemplate(angles, tpl, f.lowVis)
      hasShape == ref.tplShape # NoTpl /\ ref.tplShape = tpl.pose_id
      sBone == IF hasShape THEN f.bone ELSE 0
      sEmbed == IF hasShape THEN f.embed ELSE 0
      blend == Blend(res.score, sBone, sEmbed)
      finalScore == CoveragePenalty(blend, res.visibleCount, res.expected)
      ema == IF finalScore = Null THEN Null ELSE Ema(ref.scoreEma, finalScore)
  IN  [angles |-> angles, res |-> res, finalScore |-> finalScore, ema |-> ema,
       hasShape |-> hasShape, blend |-> blend,
       buffers |-> [k \in Joints |-> pushBuf(ref.buffers[k], f.angles[k])],
       scoreBuffer |-> scoreBufferNext(ref.scoreBuffer, ema,
                                       res.visibleCount, res.expected),
       feedback |-> FeedbackFor(res, f.lowVis, tpl, angles)]

\* some pipeline is delivering frames
CameraOn == env.camera = "on" \/ env.orphanOn

\* ---- history: which operation ran last and what it did; the age of the
\* ---- samples held in the smoother and in the score buffer
NoHist ==
  [op |-> "init", frames |-> 0, clicks |-> 0, faults |-> 0, scored |-> FALSE, threw |-> FALSE,
   emitted |-> <<>>, frame |-> NoPoseFrame, smoothed |-> AnglesWithElbow(0),
   smoothTpl |-> <<>>, scoreTpl |-> <<>>, stepRaw |-> <<>>, dropped |-> 0,
   stages |-> <<>>]

\* a step or template transition of the session
Transition == \/ st'.currentStep # st.currentStep
              \/ currentTemplate(st') # currentTemplate(st)

\* the template under which each sample of a buffer of length n was taken,
\* after this operation
TagsNext(tags, n, pushed) ==
  LET grown == IF pushed THEN Append(tags, ref.currentTemplate) ELSE tags
  IN  SubSeq(grown, Len(grown) - Min(n, Len(grown)) + 1, Len(grown))

StepRawNext(scored, f) ==
  LET kept == IF Transition \/ ref'.currentTemplate # ref.currentTemplate
              THEN <<>> ELSE hist.stepRaw
      grown == IF scored THEN Append(kept, f.angles) ELSE kept
  IN  CapFront(grown, SmootherN)

\* a request of fetchForIndex is in flight
InFlight == \E i \in Steps, c \in Steps : env.fetches[i][c] > 0

ClickOps == {"goNextClick", "togglePause", "restart"}
SlowOps == ClickOps \cup {"tick", "autoAdvance"}

\* the environment departs from the plain run: a search without match, a
\* request that throws, a second answer that differs from the first, a
\* refused camera, a timer or a click that overtakes a request in flight
FaultOps == {"noMatch", "fetchFail", "fetchOther", "cameraDenied"}

IsFault(op) == op \in FaultOps \/ (op \in SlowOps /\ InFlight)

HistNext(op, f, scored, threw, emitted, smoothed) ==
  [op |-> op,
   frames |-> IF op = "frame" THEN hist.frames + 1 ELSE hist.frames,
   clicks |-> IF op \in ClickOps THEN hist.clicks + 1 ELSE hist.clicks,
   faults |-> IF IsFault(op) THEN hist.faults + 1 ELSE hist.faults,
   scored |-> scored, threw |-> threw, emitted |-> emitted, frame |-> f,
   smoothed |-> smoothed,
   smoothTpl |-> TagsNext(hist.smoothTpl, Len(ref'.buffers["left_elbow"]), scored),
   scoreTpl |-> TagsNext(hist.scoreTpl, Len(ref'.scoreBuffer),
                           Len(ref'.scoreBuffer) > 0 /\ ref'.scoreBuffer # ref.scoreBuffer),
   stepRaw |-> StepRawNext(scored, f),
   \* samples discarded as the pipeline moved to another template
   dropped |-> IF ref'.currentTemplate = ref.currentTemplate THEN 0
               ELSE Max(0, Len(ref.buffers["left_elbow"]) - Len(ref'.buffers["left_elbow"]))
                    + Max(0, Len(ref.scoreBuffer) - Len(ref'.scoreBuffer)),
   stages |-> <<>>]

HistOp(op) == HistNext(op, NoPoseFrame, FALSE, FALSE, <<>>, NoHist.smoothed)

\* pose.onResults(results).  The closure's sessionComplete is the value of
\* the render that started the pipeline, which is false.
Frame(f) ==
  /\ CameraOn
  /\ UNCHANGED <<rendered, env, fn>>
  /\ IF ~f.lm \/ ref.currentTemplate = NoCurrent \/ ~normalizeXY(f.present)
     THEN /\ UNCHANGED <<st, ref>>
          /\ hist' = HistNext("frame", f, FALSE, FALSE, <<>>, hist.smoothed)
     ELSE IF extractAnglesThrows(f.present)
     THEN /\ UNCHANGED <<st, ref>>
          /\ hist' = HistNext("frame", f, FALSE, TRUE, <<>>, hist.smoothed)
     ELSE LET r == FrameResult(ref.currentTemplate, f)
          IN  /\ st' = [st EXCEPT !.score = r.ema, !.feedback = r.feedback]
              /\ ref' = [ref EXCEPT !.buffers = r.buffers,
                                    !.lastCoverage = <<r.res.visibleCount, r.res.expected>>,
                                    !.scoreEma = r.ema,
                                    !.scoreBuffer = r.scoreBuffer]
              \* the values of the stages of this frame
              /\ hist' = [HistNext("frame", f, TRUE, FALSE, <<r.ema>>, r.angles)
                            EXCEPT !.stages = <<[angle |-> r.res.score,
                                                 hasShape |-> r.hasShape,
                                                 blend |-> r.blend,
                                                 final |-> r.finalScore,
                                                 visibleCount |-> r.res.visibleCount,
                                                 expected |-> r.res.expected]>>]

\* ---- goNext, with the currentStep its closure captured ----
SetAt(arr, idx, v) == IF idx + 1 \in DOMAIN arr THEN [arr EXCEPT ![idx + 1] = v] ELSE arr

\* stopCameraRef.current?.()
StopCamera(e) ==
  CASE ref.stopCamera = "cur" -> [e EXCEPT !.camera = "none"]
    [] ref.stopCamera = "orphan" -> [e EXCEPT !.orphanOn = FALSE]
    [] OTHER -> e

\* goNext without the test against the number of steps
goNextPastEnd(closureStep, e) ==
  /\ st' = [st EXCEPT !.isTimerRunning = FALSE,
                      !.perExerciseScores = SetAt(@, closureStep, aggregateScore(ref.scoreBuffer)),
                      !.score = Null,
                      !.currentStep = closureStep + 1]
  /\ ref' = [ref EXCEPT !.scoreBuffer = <<>>, !.scoreEma = Null,
                        !.buffers = EmptyBuffers]
  /\ env' = e

goNext(closureStep, e) ==
  LET stable == aggregateScore(ref.scoreBuffer)
      nextStep == closureStep + 1
      last == ~(nextStep < NumSteps)
  IN  /\ st' = [st EXCEPT !.isTimerRunning = FALSE,
                          !.perExerciseScores = SetAt(@, closureStep, stable),
                          !.score = Null,
                          !.currentStep = IF last THEN @ ELSE nextStep,
                          !.sessionComplete = IF last THEN TRUE ELSE @]
      /\ ref' = [ref EXCEPT !.scoreBuffer = <<>>, !.scoreEma = Null,
                            !.buffers = EmptyBuffers]
      /\ env' = IF last THEN StopCamera(e) ELSE e

\* no render is pending other than one a frame callback or the per-render
\* reset caused, and no zero-delay timeout is waiting: user clicks and the
\* one-second and ten-second timers are far apart compared with a render
FrameFields(s) == [s EXCEPT !.score = Null, !.feedback = FbPosition]

SlowQuiet ==
  /\ rendered.mounted
  /\ FrameFields(st) = FrameFields(rendered.s)
  /\ env.pendingGoNext = <<>>

FaultOk == hist.faults < MaxFaults

\* a timer or a click
SlowOk == SlowQuiet /\ (InFlight => FaultOk)

ClickOk == SlowOk /\ hist.clicks < MaxClicks

\* the Next / Finish button
GoNextClick ==
  /\ ClickOk
  /\ ~rendered.s.sessionComplete
  /\ goNext(rendered.s.currentStep, env)
  /\ UNCHANGED <<rendered, fn>>
  /\ hist' = HistOp("goNextClick")

\* setTimeout(() => goNext(), 0) of the countdown
GoNextTimeout ==
  /\ env.pendingGoNext # <<>>
  /\ goNext(Head(env.pendingGoNext), [env EXCEPT !.pendingGoNext = Tail(@)])
  /\ UNCHANGED <<rendered, fn>>
  /\ hist' = HistOp("goNextTimeout")

\* the interval of the tick effect
Tick ==
  /\ ref.timerId
  /\ SlowOk
  /\ IF st.timeLeftSec <= 1
     THEN /\ st' = [st EXCEPT !.timeLeftSec = 0]
          /\ ref' = [ref EXCEPT !.timerId = FALSE]
          /\ env' = [env EXCEPT !.pendingGoNext = Append(@, env.tickStep)]
     ELSE /\ st' = [st EXCEPT !.timeLeftSec = @ - 1]
          /\ UNCHANGED <<ref, env>>
  /\ UNCHANGED <<rendered, fn>>
  /\ hist' = HistOp("tick")

\* the Pause / Resume button
TogglePause ==
  /\ ClickOk
  /\ ~rendered.s.sessionComplete
  /\ st' = [st EXCEPT !.isTimerRunning = ~@]
  /\ UNCHANGED <<ref, rendered, env, fn>>
  /\ hist' = HistOp("togglePause")

\* the ten-second interval: it is set anew by every render, so it fires
\* only when nothing rendered for ten seconds, which the running countdown
\* (one render a second) excludes
AutoAdvance ==
  /\ env.autoActive
  /\ ~ref.timerId
  /\ SlowOk
  /\ st' = [st EXCEPT !.currentStep = IF @ + 1 < NumSteps THEN @ + 1 ELSE 0]
  /\ ref' = [ref EXCEPT !.buffers = EmptyBuffers]
  /\ UNCHANGED <<rendered, env, fn>>
  /\ hist' = HistOp("autoAdvance")

\* the Restart Session button of the report screen
Restart ==
  /\ ClickOk
  /\ rendered.s.sessionComplete
  /\ st' = [st EXCEPT !.perExerciseScores = NullArray,
                      !.score = Null,
                      !.feedback = FbPosition,
                      !.currentStep = 0,
                      !.sessionComplete = FALSE,
                      !.stepDurationSec = parseDurationToSeconds(0),
                      !.timeLeftSec = parseDurationToSeconds(0),
                      !.isTimerRunning = TRUE]
  /\ ref' = [ref EXCEPT !.scoreBuffer = <<>>, !.scoreEma = Null,
                        !.buffers = EmptyBuffers]
  /\ UNCHANGED <<rendered, env, fn>>
  /\ hist' = HistOp("restart")

\* ---- fetchForIndex(idx), with the currentStep its closure captured ----
FetchDone(e, idx, c) == [e EXCEPT !.fetches[idx][c] = @ - 1]

\* the search found nothing
NoMatch(idx, c) ==
  /\ SlowQuiet
  /\ FaultOk
  /\ env.fetches[idx][c] > 0
  /\ st' = [st EXCEPT !.failedSet = @ \cup {idx},
                      !.loadingSet = @ \ {idx},
                      !.currentStep =
                         IF idx = c THEN (IF @ + 1 < NumSteps THEN @ + 1 ELSE 0) ELSE @,
                      !.perExerciseScores =
                         IF idx = c THEN SetAt(@, idx, Null) ELSE @]
  /\ env' = FetchDone(env, idx, c)
  /\ UNCHANGED <<ref, rendered, fn>>
  /\ hist' = HistOp("noMatch")

\* search, template and overlay all arrived
FetchOk(idx, c, t) ==
  /\ SlowQuiet
  /\ env.fetches[idx][c] > 0
  /\ t # FirstResult(idx) => FaultOk
  /\ st' = [st EXCEPT !.sessionData = SetAt(@, idx, t),
                      !.loadingSet = @ \ {idx}]
  /\ env' = FetchDone(env, idx, c)
  /\ UNCHANGED <<ref, rendered, fn>>
  /\ hist' = HistOp(IF t = FirstResult(idx) THEN "fetchOk" ELSE "fetchOther")

\* a request threw
FetchFail(idx, c) ==
  /\ SlowQuiet
  /\ FaultOk
  /\ env.fetches[idx][c] > 0
  /\ st' = [st EXCEPT !.loadingSet = @ \ {idx}]
  /\ env' = FetchDone(env, idx, c)
  /\ UNCHANGED <<ref, rendered, fn>>
  /\ hist' = HistOp("fetchFail")

\* ---- ensureCamera() resolves inside start() ----
CameraGranted ==
  /\ SlowQuiet
  /\ \/ /\ env.camera = "pending"
        /\ env' = [env EXCEPT !.camera = "on"]
        /\ ref' = [ref EXCEPT !.stopCamera = "cur"]
     \/ /\ env.orphanPending
        /\ env' = [env EXCEPT !.orphanPending = FALSE, !.orphanOn = TRUE]
        /\ ref' = [ref EXCEPT !.stopCamera = "orphan"]
  /\ st' = [st EXCEPT !.cameraStatus = "granted"]
  /\ UNCHANGED <<rendered, fn>>
  /\ hist' = HistOp("cameraGranted")

CameraDenied ==
  /\ SlowQuiet
  /\ FaultOk
  /\ \/ /\ env.camera = "pending"
        /\ env' = [env EXCEPT !.camera = "none"]
     \/ /\ env.orphanPending
        /\ env' = [env EXCEPT !.orphanPending = FALSE]
  /\ st' = [st EXCEPT !.cameraStatus = "denied"]
  /\ UNCHANGED <<ref, rendered, fn>>
  /\ hist' = HistOp("cameraDenied")

\* a variant of the reset effect that leaves the buffers alone
ResetNothing(r) == r

\* scoreBufferRef.current = []; scoreEmaRef.current = null; resetSmoother()
ResetPerStep(r) ==
  [r EXCEPT !.scoreBuffer = <<>>, !.scoreEma = Null, !.buffers = EmptyBuffers]

\* a variant of the ref sync that keeps the first template it saw
SyncRefFirstOnly(S, changed, old) ==
  IF old = NoCurrent THEN currentTemplate(S) ELSE old

\* currentTemplateRef.current = currentTemplate ?? null, on [currentTemplate]
SyncRef(S, changed, old) == IF changed THEN currentTemplate(S) ELSE old

\* ---- one committed render and the effects it runs, in source order ----
dirty == ~rendered.mounted \/ rendered.s # st

ShapeOf(cur) == IF cur # NoCurrent /\ Tpl(cur.id).landmarks THEN Tpl(cur.id).pose_id ELSE NoTpl

Render ==
  LET S == st
      P == rendered.s
      first == ~rendered.mounted
      hasData == Len(S.sessionData) > 0
      \* which dependency lists changed
      dLen == first \/ Len(P.sessionData) # Len(S.sessionData)
      dStep == first \/ P.currentStep # S.currentStep
      dTick == first \/ P.isTimerRunning # S.isTimerRunning
                     \/ P.sessionComplete # S.sessionComplete
      dFetch == dLen \/ dStep \/ P.failedSet # S.failedSet
      dTpl == first \/ currentTemplate(P) # currentTemplate(S)
      dDone == first \/ P.sessionComplete # S.sessionComplete
      toFetch == IF dFetch /\ hasData
                 THEN {i \in Steps : S.sessionData[i + 1] = NoTpl /\ i \notin S.failedSet}
                 ELSE {}
      runTick == S.isTimerRunning /\ ~S.sessionComplete
      startCam == dDone /\ ~S.sessionComplete
  IN  /\ dirty
      /\ \A i \in toFetch : env.fetches[i][S.currentStep] < MaxFetch
      /\ rendered' = [mounted |-> TRUE, s |-> S]
      /\ st' = [S EXCEPT
           \* sessionData from the workout of the context
           !.sessionData = IF first THEN [i \in 1 .. NumSteps |-> NoTpl] ELSE @,
           !.currentStep = IF first THEN 0 ELSE @,
           \* per-exercise scores array
           !.perExerciseScores = IF dLen /\ Len(@) # NumSteps THEN NullArray ELSE @,
           \* initialize timer on step change
           !.stepDurationSec = IF dStep THEN parseDurationToSeconds(S.currentStep) ELSE @,
           !.timeLeftSec = IF dStep THEN parseDurationToSeconds(S.currentStep) ELSE @,
           !.isTimerRunning = IF dStep THEN TRUE ELSE @,
           \* fetchForIndex of every index without template
           !.loadingSet = @ \cup toFetch,
           \* start() calls ensureCamera()
           !.cameraStatus = IF startCam THEN "pending" ELSE @,
           \* session completed
           !.feedback = IF dDone /\ S.sessionComplete THEN FbComplete ELSE @,
           \* reset per-step buffers: resetSmoother is a new function in
           \* every render, so this effect runs after every render
           !.score = Null]
      /\ ref' = [ResetPerStep(ref) EXCEPT
           !.timerId = IF dTick THEN runTick ELSE IF dStep THEN FALSE ELSE @,
           \* the template canvas exists only while the session runs
           !.tplShape = IF dTpl /\ ~S.sessionComplete
                        THEN ShapeOf(currentTemplate(S)) ELSE @,
           !.currentTemplate = SyncRef(S, dTpl, @),
           !.stopCamera = IF dDone /\ ~first /\ @ = "cur" THEN "old" ELSE @]
      /\ env' = [env EXCEPT
           !.tickStep = IF dTick /\ runTick THEN S.currentStep ELSE @,
           !.autoActive = hasData,
           !.fetches = [i \in Steps |-> [c \in Steps |->
                          IF i \in toFetch /\ c = S.currentStep
                          THEN env.fetches[i][c] + 1 ELSE env.fetches[i][c]]],
           \* the cleanup stops a running pipeline; a start() still waiting
           \* for ensureCamera() goes on (cancelled is never set)
           !.camera = IF dDone THEN (IF startCam THEN "pending" ELSE "none") ELSE @,
           !.orphanPending = @ \/ (dDone /\ ~first /\ env.camera = "pending")]
      /\ UNCHANGED fn
      /\ hist' = HistOp("render")

\* ---- the session ----
NoFn == [op |-> "none", in |-> <<>>, out |-> <<>>]

InitState ==
  [sessionData |-> <<>>, currentStep |-> 0, score |-> Null,
   perExerciseScores |-> <<>>, sessionComplete |-> FALSE,
   feedback |-> FbPosition, loadingSet |-> {}, failedSet |-> {},
   stepDurationSec |-> 30, timeLeftSec |-> 30, isTimerRunning |-> TRUE,
   cameraStatus |-> "idle"]

InitRef ==
  [buffers |-> EmptyBuffers, scoreBuffer |-> <<>>, lastCoverage |-> <<0, 0>>,
   scoreEma |-> Null, tplShape |-> NoTpl, currentTemplate |-> NoCurrent,
   timerId |-> FALSE, stopCamera |-> "null"]

InitEnv ==
  [tickStep |-> 0, pendingGoNext |-> <<>>, autoActive |-> FALSE,
   fetches |-> [i \in Steps |-> [c \in Steps |-> 0]],
   camera |-> "none", orphanPending |-> FALSE, orphanOn |-> FALSE]

Init ==
  /\ st = InitState
  /\ ref = InitRef
  /\ rendered = [mounted |-> FALSE, s |-> InitState]
  /\ env = InitEnv
  /\ hist = NoHist
  /\ fn = NoFn

Next ==
  \/ Render
  \/ \E f \in SessionFrames : hist.frames < MaxFrames /\ Frame(f)
  \/ GoNextClick
  \/ GoNextTimeout
  \/ Tick
  \/ TogglePause
  \/ AutoAdvance
  \/ Restart
  \/ \E idx \in Steps, c \in Steps : NoMatch(idx, c)
  \/ \E idx \in Steps, c \in Steps : \E t \in SearchResult(idx) : FetchOk(idx, c, t)
  \/ \E idx \in Steps, c \in Steps : FetchFail(idx, c)
  \/ CameraGranted
  \/ CameraDenied

Spec == Init /\ [][Next]_vars

\* ---- the pipeline at work: the session two seconds before the end of
\* ---- its first step, every template loaded, the camera running
PipelineState ==
  [InitState EXCEPT
     !.sessionData = [i \in 1 .. NumSteps |-> FirstResult(i - 1)],
     !.perExerciseScores = NullArray,
     !.stepDurationSec = parseDurationToSeconds(0),
     !.timeLeftSec = 2,
     !.cameraStatus = "granted"]

InitPipeline ==
  /\ st = PipelineState
  /\ ref = [InitRef EXCEPT !.currentTemplate = currentTemplate(PipelineState),
                           !.tplShape = ShapeOf(currentTemplate(PipelineState)),
                           !.stopCamera = "cur",
                           !.timerId = TRUE]
  /\ rendered = [mounted |-> TRUE, s |-> PipelineState]
  /\ env = [InitEnv EXCEPT !.camera = "on", !.autoActive = TRUE]
  /\ hist = NoHist
  /\ fn = NoFn

NextPipeline ==
  \/ Render
  \/ \E f \in PipelineFrames : hist.frames < MaxPipelineFrames /\ Frame(f)
  \/ GoNextClick
  \/ GoNextTimeout
  \/ Tick
  \/ TogglePause
  \/ AutoAdvance
  \/ Restart

SpecPipeline == InitPipeline /\ [][NextPipeline]_vars

\* the session reaches the state the pipeline specification starts from
NotAtPipelineStart ==
  ~(/\ st = PipelineState
    /\ rendered = [mounted |-> TRUE, s |-> PipelineState]
    /\ ref.currentTemplate = currentTemplate(PipelineState)
    /\ ref.tplShape = ShapeOf(currentTemplate(PipelineState))
    /\ ref.stopCamera = "cur" /\ ref.timerId
    /\ ref.scoreBuffer = <<>> /\ ref.buffers = EmptyBuffers
    /\ env = [InitEnv EXCEPT !.camera = "on", !.autoActive = TRUE])

\* ------------------------------------------------------------------------
\* scoreAgainstTemplate on its own: one call on an input drawn from
\* ScoreInputs
\* ------------------------------------------------------------------------
ScoreInputs ==
  [tpl : {"one", "two", "three"},
   angles : {AnglesOf(e, k, sp) : e \in {90, 97, 105, 120},
                                  k \in {170, 160, 130}, sp \in {0, 10}},
   lowVis : {{}, {LEFT_WRIST}, {LEFT_ANKLE}, {LEFT_WRIST, LEFT_ANKLE}}]

Idle ==
  /\ st = InitState
  /\ ref = InitRef
  /\ rendered = [mounted |-> FALSE, s |-> InitState]
  /\ env = InitEnv
  /\ hist = NoHist

InitScore ==
  /\ Idle
  /\ \E i \in ScoreInputs : fn = [op |-> "none", in |-> i, out |-> <<>>]

ApplyScore ==
  /\ fn.op = "none"
  /\ fn' = [fn EXCEPT !.op = "score",
                      !.out = scoreAgainstTemplate(fn.in.angles, Tpl(fn.in.tpl),
                                                   fn.in.lowVis)]
  /\ UNCHANGED <<st, ref, rendered, env, hist>>

NextScore == ApplyScore

SpecScore == InitScore /\ [][NextScore]_vars

\* ------------------------------------------------------------------------
\* the feedback of one frame on its own: scoreAgainstTemplate followed by
\* the feedback branch of pose.onResults, on every input of FeedbackInputs
\* ------------------------------------------------------------------------
FeedbackInputs ==
  [tpl : {"one", "two", "three"},
   angles : {AnglesOf(e, k, sp) : e \in {90, 100, 120},
                                  k \in {170, 156, 130}, sp \in {0, 10}},
   lowVis : {{}, {LEFT_WRIST}, {LEFT_ANKLE}, {LEFT_WRIST, LEFT_ANKLE}}]

InitFeedback ==
  /\ Idle
  /\ \E i \in FeedbackInputs : fn = [op |-> "none", in |-> i, out |-> <<>>]

ApplyFeedback ==
  /\ fn.op = "none"
  /\ fn' = [fn EXCEPT
             !.op = "feedback",
             !.out = FeedbackFor(scoreAgainstTemplate(fn.in.angles, Tpl(fn.in.tpl),
                                                      fn.in.lowVis),
                                 fn.in.lowVis, Tpl(fn.in.tpl), fn.in.angles)]
  /\ UNCHANGED <<st, ref, rendered, env, hist>>

NextFeedback == ApplyFeedback

SpecFeedback == InitFeedback /\ [][NextFeedback]_vars

\* ------------------------------------------------------------------------
\* the score buffer on its own: up to MaxPushes frames, each with its EMA
\* value and its coverage, on a buffer that is empty or one short of the cap
\* ------------------------------------------------------------------------
MaxPushes == 2

\* visibleCount and expected of a frame: coverage 0, 0.5, 0.83, 0.85, 0.86, 1
CoveragePairs == {<<0, 1>>, <<1, 2>>, <<5, 6>>, <<17, 20>>, <<6, 7>>, <<2, 2>>}

EmaValues == {Null, 7, 50, 93}

\* a buffer of n values that tell their position
BufferOf(n) == [i \in 1 .. n |-> i % 101]

InitPush ==
  /\ Idle
  /\ \E n \in {0, ScoreBufCap - 1} :
       fn = [op |-> "none", in |-> <<>>, out |-> BufferOf(n), pushes |-> 0]

PushFrame(ema, c) ==
  /\ fn.pushes < MaxPushes
  /\ fn' = [op |-> "push",
            in |-> [buf |-> fn.out, ema |-> ema, visibleCount |-> c[1], expected |-> c[2]],
            out |-> scoreBufferNext(fn.out, ema, c[1], c[2]),
            pushes |-> fn.pushes + 1]
  /\ UNCHANGED <<st, ref, rendered, env, hist>>

NextPush == \E ema \in EmaValues, c \in CoveragePairs : PushFrame(ema, c)

SpecPush == InitPush /\ [][NextPush]_vars

\* ------------------------------------------------------------------------
\* normalizeXY on coordinates: landmarks on a grid of 0.01, the 1e-6 of
\* `scale` is 1 / GridPerEps of a grid step; every quantity is an exact
\* fraction num / den in lowest terms
\* ------------------------------------------------------------------------
GridPerEps == 10000

RECURSIVE GCD(_, _)
GCD(a, b) == IF b = 0 THEN a ELSE GCD(b, a % b)

Frac(n, d) ==
  LET g == GCD(Abs(n), d) IN [num |-> n \div g, den |-> d \div g]

Vec(x, y) == [x |-> x, y |-> y]

\* const sub = (a, b) => ({ x: a.x - b.x, y: a.y - b.y })
sub(a, b) == Vec(a.x - b.x, a.y - b.y)

\* Math.hypot(a.x, a.y), for the vectors of integer length
len(a) == CHOOSE r \in 0 .. Abs(a.x) + Abs(a.y) : r * r = a.x * a.x + a.y * a.y

\* a variant without the 1e-6
scaleNoEps(m) == m * GridPerEps

\* scale = len(lsh - lhip) + 1e-6, in units of 1e-6
scaleOf(m) == m * GridPerEps + 1

\* c = cos(-theta), s = sin(-theta) with theta = atan2(shv.y, shv.x):
\* c = shv.x / |shv|, s = -shv.y / |shv|, and theta = 0 for shv = 0
Direction(shv) ==
  LET h == len(shv)
      g == GCD(GCD(Abs(shv.x), Abs(shv.y)), h)
  IN  IF h = 0 THEN [x |-> 1, y |-> 0, h |-> 1]
      ELSE [x |-> shv.x \div g, y |-> shv.y \div g, h |-> h \div g]

\* the normalized pose of the landmarks lm (the four anchors are there)
normalizeXYPoints(lm) ==
  LET lhip == lm[LEFT_HIP]
      rhip == lm[RIGHT_HIP]
      lsh == lm[LEFT_SHOULDER]
      rsh == lm[RIGHT_SHOULDER]
      \* twice midHip
      midHip2 == Vec(lhip.x + rhip.x, lhip.y + rhip.y)
      scale == scaleOf(len(sub(lsh, lhip)))
      u == Direction(sub(rsh, lsh))
      den == 2 * u.h * scale
      apply(p) ==
        LET tx2 == 2 * p.x - midHip2.x
            ty2 == 2 * p.y - midHip2.y
        IN  [x |-> Frac(GridPerEps * (u.x * tx2 + u.y * ty2), den),
             y |-> Frac(GridPerEps * (u.x * ty2 - u.y * tx2), den)]
  IN  [idx \in DOMAIN lm |-> apply(lm[idx])]

\* ---- the poses and the transformations applied to them ----
PoseLandmarks ==
  {LEFT_SHOULDER, RIGHT_SHOULDER, LEFT_HIP, RIGHT_HIP, LEFT_ELBOW, LEFT_WRIST}

\* left shoulder, right shoulder, left hip, right hip: upright, shoulders
\* tilted, shoulders on one point (side view), torso leaning
Torsos ==
  {<<Vec(60, 20), Vec(30, 20), Vec(60, 60), Vec(30, 60)>>,
   <<Vec(60, 20), Vec(30, 60), Vec(60, 70), Vec(30, 90)>>,
   <<Vec(50, 20), Vec(50, 20), Vec(50, 60), Vec(50, 60)>>,
   <<Vec(60, 20), Vec(20, 20), Vec(30, 60), Vec(10, 60)>>}

\* left elbow, left wrist
Arms ==
  {<<Vec(70, 40), Vec(80, 20)>>, <<Vec(70, 40), Vec(70, 70)>>,
   <<Vec(90, 20), Vec(90, 50)>>}

PoseOf(t, a) ==
  [idx \in PoseLandmarks |->
     CASE idx = LEFT_SHOULDER -> t[1]
       [] idx = RIGHT_SHOULDER -> t[2]
       [] idx = LEFT_HIP -> t[3]
       [] idx = RIGHT_HIP -> t[4]
       [] idx = LEFT_ELBOW -> a[1]
       [] idx = LEFT_WRIST -> a[2]]

Poses == {PoseOf(t, a) : t \in Torsos, a \in Arms}

\* translations, scalings by k, and rotations by the angle of cosine a / c
\* and sine b / c: a quarter turn, a half turn and atan(4 / 3)
Transforms ==
  {[kind |-> "translate", dx |-> d[1], dy |-> d[2]] : d \in {<<10, 0>>, <<-20, 30>>}}
  \cup {[kind |-> "scale", k |-> k] : k \in {2, 3}}
  \cup {[kind |-> "rotate", a |-> r[1], b |-> r[2], c |-> r[3]] :
          r \in {<<0, 1, 1>>, <<-1, 0, 1>>, <<3, 4, 5>>}}

Move(t, p) ==
  CASE t.kind = "translate" -> Vec(p.x + t.dx, p.y + t.dy)
    [] t.kind = "scale" -> Vec(t.k * p.x, t.k * p.y)
    [] t.kind = "rotate" -> Vec((t.a * p.x - t.b * p.y) \div t.c,
                                (t.b * p.x + t.a * p.y) \div t.c)

MovePose(t, lm) == [idx \in DOMAIN lm |-> Move(t, lm[idx])]

InitNormalize ==
  /\ Idle
  /\ \E lm \in Poses, t \in Transforms :
       fn = [op |-> "none", in |-> [lm |-> lm, t |-> t], out |-> <<>>]

ApplyNormalize ==
  /\ fn.op = "none"
  /\ fn' = [fn EXCEPT !.op = "normalize",
                      !.out = [base |-> normalizeXYPoints(fn.in.lm),
                               moved |-> normalizeXYPoints(MovePose(fn.in.t, fn.in.lm))]]
  /\ UNCHANGED <<st, ref, rendered, env, hist>>

NextNormalize == ApplyNormalize

SpecNormalize == InitNormalize /\ [][NextNormalize]_vars

\* ------------------------------------------------------------------------
\* wrapDiff on its own: pairs of integer degrees, negatives and values
\* above 360 among them
\* ------------------------------------------------------------------------
WrapAngles == {-370, -180, -90, -10, 0, 10, 90, 170, 180, 181, 190, 350, 360, 370, 540, 730}

InitWrap ==
  /\ Idle
  /\ \E a \in WrapAngles, b \in WrapAngles :
       fn = [op |-> "none", in |-> <<a, b>>, out |-> <<>>]

\* wrapDiff(a, b) and wrapDiff(b, a)
ApplyWrap ==
  /\ fn.op = "none"
  /\ fn' = [fn EXCEPT !.op = "wrap",
                      !.out = <<wrapDiff(fn.in[1], fn.in[2]),
                                wrapDiff(fn.in[2], fn.in[1])>>]
  /\ UNCHANGED <<st, ref, rendered, env, hist>>

NextWrap == ApplyWrap

SpecWrap == InitWrap /\ [][NextWrap]_vars

\* ------------------------------------------------------------------------
\* useAngleSmoother on its own: up to MaxSmootherOps calls of push and
\* reset, on buffers that are empty or, for one joint, one short of N.
\* fn.since is what was pushed for each joint since the last reset.
\* ------------------------------------------------------------------------
MaxSmootherOps == 3

SampleValues == {80, 90, 120}

InitSmoother ==
  /\ Idle
  /\ \E n \in {0, SmootherN - 1} :
       LET b == [EmptyBuffers EXCEPT !["left_elbow"] = [i \in 1 .. n |-> 100 + i]]
       IN  fn = [op |-> "none", in |-> <<>>, out |-> Null,
                 before |-> b, buffers |-> b, since |-> b, ops |-> 0]

\* push(k, v)
PushSample(k, v) ==
  /\ fn.ops < MaxSmootherOps
  /\ fn' = [op |-> "push", in |-> <<k, v>>,
            out |-> pushMedian(fn.buffers[k], v),
            before |-> fn.buffers,
            buffers |-> [fn.buffers EXCEPT ![k] = pushBuf(@, v)],
            since |-> [fn.since EXCEPT ![k] = Append(@, v)],
            ops |-> fn.ops + 1]
  /\ UNCHANGED <<st, ref, rendered, env, hist>>

\* reset()
ResetSmoother ==
  /\ fn.ops < MaxSmootherOps
  /\ fn' = [op |-> "reset", in |-> <<>>, out |-> Null,
            before |-> fn.buffers, buffers |-> EmptyBuffers,
            since |-> EmptyBuffers, ops |-> fn.ops + 1]
  /\ UNCHANGED <<st, ref, rendered, env, hist>>

NextSmoother ==
  \/ \E k \in {"left_elbow", "left_knee"}, v \in SampleValues : PushSample(k, v)
  \/ ResetSmoother

SpecSmoother == InitSmoother /\ [][NextSmoother]_vars

\* ------------------------------------------------------------------------
\* the coverage penalty and the EMA on their own: up to MaxPenaltyFrames
\* frames, each with its blended score and its coverage
\* ------------------------------------------------------------------------
MaxPenaltyFrames == 2

BlendValues == {Null, 0, 5, 73, 100}

\* coverage 0, 0.5, 0.75, 0.8, 0.83, 0.85, 0.86, 0.875, 1
PenaltyCoverage == CoveragePairs \cup {<<3, 4>>, <<4, 5>>, <<7, 8>>}

InitPenalty ==
  /\ Idle
  /\ fn = [op |-> "none", in |-> <<>>, out |-> [final |-> Null, ema |-> Null],
           frames |-> 0]

\* the penalty, then the EMA on scoreEmaRef
PenaltyFrame(blend, c) ==
  /\ fn.frames < MaxPenaltyFrames
  /\ LET final == CoveragePenalty(blend, c[1], c[2])
     IN  fn' = [op |-> "penalty",
                in |-> [blend |-> blend, visibleCount |-> c[1], expected |-> c[2]],
                out |-> [final |-> final,
                         ema |-> IF final = Null THEN Null ELSE Ema(fn.out.ema, final)],
                frames |-> fn.frames + 1]
  /\ UNCHANGED <<st, ref, rendered, env, hist>>

NextPenalty == \E blend \in BlendValues, c \in PenaltyCoverage : PenaltyFrame(blend, c)

SpecPenalty == InitPenalty /\ [][NextPenalty]_vars

\* ------------------------------------------------------------------------
\* aggregateScore on its own: one call on a buffer of at most MaxAggLen
\* frame scores
\* ------------------------------------------------------------------------
AggValues == {40, 90, 95}

AggInputs == UNION {[1 .. n -> AggValues] : n \in 0 .. MaxAggLen}

InitAggregate ==
  /\ Idle
  /\ \E i \in AggInputs : fn = [op |-> "none", in |-> i, out |-> <<>>]

ApplyAggregate ==
  /\ fn.op = "none"
  /\ fn' = [fn EXCEPT !.op = "aggregate", !.out = aggregateScore(fn.in)]
  /\ UNCHANGED <<st, ref, rendered, env, hist>>

NextAggregate == ApplyAggregate

SpecAggregate == InitAggregate /\ [][NextAggregate]_vars

TypeOK ==
  /\ st.currentStep \in Steps
  /\ st.score \in {Null} \cup (0 .. 100)

\* ------------------------------------------------------------------------
\* aggregateScore
\* ------------------------------------------------------------------------
\* how many entries of the buffer are below v, and at most v
CountBelow(frames, v) == Cardinality({i \in DOMAIN frames : frames[i] < v})
CountUpTo(frames, v) == Cardinality({i \in DOMAIN frames : frames[i] <= v})

\* the value at 0-based position r of the buffer in ascending order
IsRanked(frames, r, v) ==
  /\ \E i \in DOMAIN frames : frames[i] = v
  /\ CountBelow(frames, v) <= r
  /\ CountUpTo(frames, v) >= r + 1

\* the arithmetic median of the top slice, rounded down or up
TopMedians(frames) ==
  LET n == Len(frames)
      start == (7 * n) \div 10
      m == n - start
      lo == CHOOSE v \in 0 .. 100 : IsRanked(frames, start + ((m - 1) \div 2), v)
      hi == CHOOSE v \in 0 .. 100 : IsRanked(frames, start + (m \div 2), v)
  IN  {(lo + hi) \div 2, (lo + hi + 1) \div 2}

AggExample == <<40, 40, 40, 90, 90, 95>>

\* C7 as stated: aggregateScore of a non-empty buffer is the median of the
\* values from position floor(0.7 n) of the ascending buffer on, and
\* [40,40,40,90,90,95] gives 92 or 93.
C7_MedianOfTop ==
  (fn.op = "aggregate" /\ fn.in # <<>>) => fn.out \in TopMedians(fn.in)

\* C7 amended: aggregateScore of a non-empty buffer of n values is the lower
\* median of the values from position floor(0.7 n) of the ascending buffer
\* on, i.e. with m = n - floor(0.7 n) the value at position
\* floor(0.7 n) + floor((m - 1) / 2); [40,40,40,90,90,95] gives 90.
C7_LowerMedianOfTop ==
  (fn.op = "aggregate" /\ fn.in # <<>>) =>
    LET n == Len(fn.in)
        start == (7 * n) \div 10
    IN  /\ IsRanked(fn.in, start + ((n - start - 1) \div 2), fn.out)
        /\ fn.in = AggExample => fn.out = 90

C7_Witness == fn.op = "aggregate" /\ fn.in = AggExample /\ fn.out = 90

\* ------------------------------------------------------------------------
\* scoreAgainstTemplate
\* ------------------------------------------------------------------------
\* the joints of the template of a call that pass the gate
Survivors(in) ==
  {k \in DOMAIN Tpl(in.tpl).angles_deg : ~Gated(in.angles, k, in.lowVis)}

NormErr(in, k) == Row(in.angles, Tpl(in.tpl), k).n
WeightOf(in, k) == Row(in.angles, Tpl(in.tpl), k).w

RECURSIVE ErrSum(_, _)
ErrSum(in, S) ==
  IF S = {} THEN 0
  ELSE LET k == CHOOSE x \in S : TRUE
       IN  NormErr(in, k) * WeightOf(in, k) + ErrSum(in, S \ {k})

RECURSIVE WeightSum(_, _)
WeightSum(in, S) ==
  IF S = {} THEN 0
  ELSE LET k == CHOOSE x \in S : TRUE IN WeightOf(in, k) + WeightSum(in, S \ {k})

\* round(100 (1 - mae)^0.6) with mae the weighted mean error over S
ScoreOver(in, S) ==
  Lift(NormUnit * WeightSum(in, S) - ErrSum(in, S), NormUnit * WeightSum(in, S))

\* C9: when exactly one joint of the template passes the gate, the score is
\* round(100 (1 - normError)^0.6) of that joint, so an exact match scores 100.
C9_SingleJointScored ==
  (fn.op = "score" /\ Cardinality(Survivors(fn.in)) = 1) =>
    fn.out.score = ScoreOver(fn.in, Survivors(fn.in))

C10Example ==
  [tpl |-> "two", angles |-> AnglesOf(120, 170, 0), lowVis |-> {}]

\* C10: when at least two joints pass the gate, exactly one joint is left
\* out of the weighted mean error, in its numerator and its denominator,
\* and that joint has the highest normError of all; with left_elbow off by
\* 30 at tolerance 15 and left_knee exact the score is 100.
C10_WorstJointTrimmed ==
  (fn.op = "score" /\ Cardinality(Survivors(fn.in)) >= 2) =>
    /\ \E d \in Survivors(fn.in) :
          /\ \A k \in Survivors(fn.in) : NormErr(fn.in, k) <= NormErr(fn.in, d)
          /\ fn.out.score = ScoreOver(fn.in, Survivors(fn.in) \ {d})
    /\ Len(fn.out.used) = Cardinality(Survivors(fn.in)) - 1
    /\ fn.in = C10Example => fn.out.score = 100

C10_Witness ==
  /\ fn.op = "score" /\ fn.in = C10Example
  /\ NormErr(fn.in, "left_elbow") = NormUnit /\ NormErr(fn.in, "left_knee") = 0
  /\ fn.out.score = 100

\* ------------------------------------------------------------------------
\* the frame callback
\* ------------------------------------------------------------------------
LacksAnchor(f) == f.lm /\ ~(Anchors \subseteq f.present)
LacksHips(f) == f.lm /\ f.present \cap {LEFT_HIP, RIGHT_HIP} = {}

\* C1: a frame whose landmarks lack one of the four anchors changes neither
\* the smoother buffers, the score buffer, the score EMA, the last coverage
\* nor the feedback, and raises nothing.
C1_NoAnchorNoChange ==
  [][(hist'.op = "frame" /\ LacksAnchor(hist'.frame)) =>
       (/\ ref' = ref
        /\ st' = st
        /\ ~hist'.scored /\ ~hist'.threw)]_vars

C1_Witness ==
  /\ hist.op = "frame" /\ LacksAnchor(hist.frame) /\ ~LacksHips(hist.frame)
  /\ ref.currentTemplate # NoCurrent
  /\ ref.scoreBuffer # <<>> /\ ref.buffers["left_elbow"] # <<>>
  /\ ref.scoreEma # Null

\* C2: after a frame on which both hips are missing the score state is
\* null, also when the frame before set a number.
C2_NoHipsScoreNull ==
  (hist.op = "frame" /\ LacksHips(hist.frame)) => st.score = Null

\* C3: every sample in the smoother buffers and every entry of the score
\* buffer was taken under the template object the pipeline scores against
\* now: none outlives a step or template transition.
C3_NoSampleSurvives ==
  /\ \A i \in DOMAIN hist.smoothTpl : hist.smoothTpl[i] = ref.currentTemplate
  /\ \A i \in DOMAIN hist.scoreTpl : hist.scoreTpl[i] = ref.currentTemplate
  /\ Len(hist.smoothTpl) = Len(ref.buffers["left_elbow"])
  /\ Len(hist.scoreTpl) = Len(ref.scoreBuffer)

\* the template of step 0 was replaced while samples of the old one were held
C3_Witness ==
  /\ hist.op = "render" /\ hist.dropped >= 2
  /\ ref.currentTemplate = [at |-> 0, id |-> "one"]
  /\ ref.scoreBuffer = <<>> /\ ref.buffers = EmptyBuffers

\* C4: the smoothed angle of the k-th scored frame of a step is the lower
\* median of the raw angles of the last min(k, 7) scored frames of that
\* step, whatever happened between them.
C4_MedianOverStep ==
  (hist.op = "frame" /\ hist.scored) =>
    LET raw == [i \in DOMAIN hist.stepRaw |-> hist.stepRaw[i]["left_elbow"]]
    IN  IsRanked(raw, (Len(raw) - 1) \div 2, hist.smoothed["left_elbow"])

\* a step that had a template is left, or the session completes
LeavesStep ==
  /\ ~st.sessionComplete
  /\ currentTemplate(st) # NoCurrent
  /\ st'.currentStep # st.currentStep \/ st'.sessionComplete

\* C5: whenever a step with a template is left, perExerciseScores of that
\* step becomes aggregateScore of the score buffer as it was then.
C5_StableScoreRecorded ==
  [][LeavesStep =>
       st'.perExerciseScores[st.currentStep + 1] = aggregateScore(ref.scoreBuffer)]_vars

\* step and template stay, the session is not complete
SameStep ==
  /\ st'.currentStep = st.currentStep
  /\ currentTemplate(st') = currentTemplate(st)
  /\ ref'.currentTemplate = ref.currentTemplate
  /\ ~st.sessionComplete /\ ~st'.sessionComplete

\* C6: while step and template stay, the score buffer is left alone or gets
\* one entry appended and is cut at the front to 600; it is never emptied.
C6_BufferOnlyGrows ==
  [][SameStep =>
       \/ ref'.scoreBuffer = ref.scoreBuffer
       \/ \E v \in 0 .. 100 :
            ref'.scoreBuffer = CapFront(Append(ref.scoreBuffer, v), ScoreBufCap)]_vars

\* C8: a scored frame on which every joint of the template is gated out
\* emits null, never a number.
C8_AllGatedNull ==
  (/\ hist.op = "frame" /\ hist.scored
   /\ \A k \in DOMAIN Tpl(ref.currentTemplate.id).angles_deg :
        Gated(hist.frame.angles, k, hist.frame.lowVis)) =>
    (hist.emitted = <<Null>> /\ st.score = Null)

\* ------------------------------------------------------------------------
\* the stages of a scored frame
\* ------------------------------------------------------------------------
ScoredFrame == hist.op = "frame" /\ hist.scored

TplOfFrame == Tpl(ref.currentTemplate.id)

\* C11: a frame with every landmark visible whose smoothed angles equal the
\* reference angles of a template of two or more joints scores 100.
C11_ExactMatchScores100 ==
  (/\ ScoredFrame
   /\ Len(TplOfFrame.keys) >= 2
   /\ hist.frame.lowVis = {}
   /\ \A k \in DOMAIN TplOfFrame.angles_deg :
        hist.smoothed[k] = TplOfFrame.angles_deg[k]) =>
    hist.stages[1].final = 100

\* C12: for a template without landmarks, a non-null angle score and full
\* coverage, the final score of the frame is the angle score.
C12_AngleOnlyFinalIsAngle ==
  (/\ ScoredFrame
   /\ ~TplOfFrame.landmarks
   /\ hist.stages[1].angle # Null
   /\ hist.stages[1].visibleCount = hist.stages[1].expected) =>
    hist.stages[1].final = hist.stages[1].angle

\* C13: when the angle score is null and the bone or the embedding score is
\* there, the frame emits round(0.65 bone + 0.35 embed).
C13_FallbackEmitted ==
  (/\ ScoredFrame
   /\ hist.stages[1].angle = Null
   /\ hist.stages[1].hasShape
   /\ hist.frame.bone # 0 \/ hist.frame.embed # 0) =>
    hist.emitted = <<RoundDiv(65 * hist.frame.bone + 35 * hist.frame.embed, 100)>>

\* null or an integer in [0, 100]
InRange(x) == x = Null \/ x \in 0 .. 100

\* C14: every score of the pipeline is null or an integer in [0, 100]: the
\* angle score, the blended score, the penalised score, the displayed EMA,
\* the entries of the score buffer and the entries of perExerciseScores.
C14_ScoresInRange ==
  /\ \A i \in DOMAIN hist.stages :
       /\ InRange(hist.stages[i].angle)
       /\ InRange(hist.stages[i].blend)
       /\ InRange(hist.stages[i].final)
  /\ \A i \in DOMAIN hist.emitted : InRange(hist.emitted[i])
  /\ InRange(st.score)
  /\ InRange(ref.scoreEma)
  /\ \A i \in DOMAIN ref.scoreBuffer : ref.scoreBuffer[i] \in 0 .. 100
  /\ \A i \in DOMAIN st.perExerciseScores : InRange(st.perExerciseScores[i])

\* a step left with a recorded score after a frame whose fallback blend met
\* coverage 0
C14_Witness ==
  /\ \E i \in DOMAIN st.perExerciseScores : st.perExerciseScores[i] \in 0 .. 100
  /\ hist.stages # <<>>
  /\ hist.stages[1].angle = Null
  /\ hist.stages[1].final = 0
  /\ hist.stages[1].blend > 0

\* ------------------------------------------------------------------------
\* the end of the session
\* ------------------------------------------------------------------------
\* C15: once the session is complete the frame loop and the timers are
\* stopped and stay stopped: no frame callback scores, pushes samples or
\* appends to the score buffer, and no interval changes timeLeftSec or
\* currentStep.
C15_StoppedStaysStopped ==
  [][(st.sessionComplete /\ hist'.op \in {"frame", "tick", "autoAdvance"}) =>
       /\ ~hist'.scored
       /\ ref'.buffers = ref.buffers
       /\ ref'.scoreBuffer = ref.scoreBuffer
       /\ st'.score = st.score
       /\ st'.timeLeftSec = st.timeLeftSec
       /\ st'.currentStep = st.currentStep]_vars

LacksJointLandmark(f) ==
  /\ f.lm
  /\ Anchors \subseteq f.present
  /\ \E k \in DOMAIN JOINT_LM : ~(JOINT_LM[k] \subseteq f.present)

\* C17: a frame with the four anchors that lacks another landmark of some
\* joint raises no exception and is scored on the remaining joints.
C17_MissingLandmarkSkipsJoint ==
  (/\ hist.op = "frame"
   /\ ref.currentTemplate # NoCurrent
   /\ LacksJointLandmark(hist.frame)) =>
    (~hist.threw /\ hist.scored)

\* ------------------------------------------------------------------------
\* feedback
\* ------------------------------------------------------------------------
\* the joints of the template that pass the gate with normError >= 0.6
MaterialJoints(in) == {k \in Survivors(in) : 10 * NormErr(in, k) >= 6 * NormUnit}

\* the limb groups with a landmark below the visibility threshold
HiddenGroups(in) == {g \in DOMAIN LIMB_GROUPS : LIMB_GROUPS[g] \cap in.lowVis # {}}

\* coverage >= 0.6 and fewer than two limb groups missing
InView(in) ==
  /\ 10 * Cardinality(Survivors(in)) >= 6 * Len(Tpl(in.tpl).keys)
  /\ Cardinality(HiddenGroups(in)) < 2

\* C19: the hints of a frame name at most two joints, each a joint of the
\* template that passed the gate with normError >= 0.6, in decreasing
\* order of normError and, with the body in view, none worse left out; with
\* no such joint and the body in view the feedback is the 'Nice! Hold
\* steady' message.
C19_HintsTopTwo ==
  fn.op = "feedback" =>
    LET tips == fn.out.tips
        named == {tips[i].joint : i \in DOMAIN tips}
    IN  /\ Len(tips) <= 2
        /\ fn.out.kind = "tips" <=> tips # <<>>
        /\ Cardinality(named) = Len(tips)
        /\ named \subseteq MaterialJoints(fn.in)
        /\ \A i, j \in DOMAIN tips :
             i < j => NormErr(fn.in, tips[i].joint) >= NormErr(fn.in, tips[j].joint)
        /\ InView(fn.in) =>
             \A k \in MaterialJoints(fn.in) \ named :
               /\ Len(tips) = 2
               /\ NormErr(fn.in, k) <= NormErr(fn.in, tips[2].joint)
        /\ (InView(fn.in) /\ MaterialJoints(fn.in) = {}) => fn.out.kind = "nice"
        /\ (InView(fn.in) /\ MaterialJoints(fn.in) # {}) => fn.out.kind = "tips"
        /\ ~InView(fn.in) => fn.out.kind = "moveBack"

\* three joints at or above 0.6, all different: the two worst are named,
\* the worst first
C19_Witness ==
  /\ fn.op = "feedback"
  /\ Cardinality(MaterialJoints(fn.in)) = 3
  /\ Len(fn.out.tips) = 2
  /\ NormErr(fn.in, fn.out.tips[1].joint) > NormErr(fn.in, fn.out.tips[2].joint)
  /\ \A k \in MaterialJoints(fn.in) :
       k \notin {fn.out.tips[1].joint, fn.out.tips[2].joint} =>
         NormErr(fn.in, k) < NormErr(fn.in, fn.out.tips[2].joint)

\* ------------------------------------------------------------------------
\* the score buffer
\* ------------------------------------------------------------------------
\* the frame has a final score and coverage >= 0.85
Admitted(in) == in.ema # Null /\ 100 * in.visibleCount >= 85 * in.expected

\* C20: a frame appends its value to the score buffer only if its coverage
\* is >= 0.85 and its final score is not null; the buffer never holds more
\* than 600 values, and on overflow it holds the most recent 600 in arrival
\* order.
C20_BufferAdmitsAndCaps ==
  fn.op = "push" =>
    LET old == fn.in.buf
        new == fn.out
        shift == Len(old) + 1 - Len(new)
    IN  /\ Len(new) <= ScoreBufCap
        /\ ~Admitted(fn.in) => new = old
        /\ Admitted(fn.in) =>
             /\ Len(new) = Min(Len(old) + 1, ScoreBufCap)
             /\ new[Len(new)] = fn.in.ema
             /\ \A i \in 1 .. Len(new) - 1 : new[i] = old[i + shift]

\* a value appended to a full buffer: the oldest one is gone
C20_Witness ==
  /\ fn.op = "push"
  /\ Admitted(fn.in)
  /\ Len(fn.in.buf) = ScoreBufCap
  /\ Len(fn.out) = ScoreBufCap
  /\ fn.out[1] = fn.in.buf[2]

\* ------------------------------------------------------------------------
\* normalizeXY under translation, scaling and rotation
\* ------------------------------------------------------------------------
\* C18 as stated: the normalized pose of the transformed landmarks is the
\* normalized pose of the landmarks, for a translation, a positive uniform
\* scaling and an in-plane rotation alike.
C18_NormalizedPoseInvariant ==
  fn.op = "normalize" => fn.out.moved = fn.out.base

\* f times a / b, in lowest terms
MulFrac(f, a, b) ==
  LET g1 == GCD(Abs(f.num), b)
      g2 == GCD(a, f.den)
  IN  [num |-> (f.num \div g1) * (a \div g2), den |-> (f.den \div g2) * (b \div g1)]

\* the shoulder-to-hip distance of the pose, in grid steps
TorsoLen(lm) == len(sub(lm[LEFT_SHOULDER], lm[LEFT_HIP]))

ShouldersApart(lm) == lm[LEFT_SHOULDER] # lm[RIGHT_SHOULDER]

\* C18: the normalized pose is the same after a translation and, with the
\* shoulders apart, after a rotation; after a scaling by k it is the
\* normalized pose times k (s + 1e-6) / (k s + 1e-6), s being the
\* shoulder-to-hip distance.
C18_InvariantUpToEpsilon ==
  fn.op = "normalize" =>
    LET t == fn.in.t
        base == fn.out.base
        moved == fn.out.moved
        m == TorsoLen(fn.in.lm)
    IN  /\ t.kind = "translate" => moved = base
        /\ (t.kind = "rotate" /\ ShouldersApart(fn.in.lm)) => moved = base
        /\ t.kind = "scale" =>
             \A idx \in DOMAIN base :
               /\ MulFrac(moved[idx].x, t.k * m * GridPerEps + 1,
                           t.k * (m * GridPerEps + 1)) = base[idx].x
               /\ MulFrac(moved[idx].y, t.k * m * GridPerEps + 1,
                           t.k * (m * GridPerEps + 1)) = base[idx].y

\* a scaled pose whose normalized wrist is not where it was
C18_Witness ==
  /\ fn.op = "normalize"
  /\ fn.in.t.kind = "scale"
  /\ ShouldersApart(fn.in.lm)
  /\ fn.out.moved[LEFT_WRIST] # fn.out.base[LEFT_WRIST]

\* ------------------------------------------------------------------------
\* gating and coverage
\* ------------------------------------------------------------------------
\* the joints in the rows of a result
ScoredJoints(res) == {res.rows[i].joint : i \in DOMAIN res.rows}

\* the joints scored for the input of the call with the landmarks of low
\* hidden as well
ScoredWith(in, low) ==
  ScoredJoints(scoreAgainstTemplate(in.angles, Tpl(in.tpl), in.lowVis \cup low))

\* C21: hiding one more landmark leaves a subset of the scored joints, and
\* a joint is scored only if every landmark of its JOINT_LM entry is
\* visible.
C21_GatingMonotonic ==
  fn.op = "score" =>
    /\ \A lm \in Landmarks :
         ScoredWith(fn.in, {lm}) \subseteq ScoredJoints(fn.out)
    /\ \A k \in ScoredJoints(fn.out) :
         k \in DOMAIN JOINT_LM => JOINT_LM[k] \cap fn.in.lowVis = {}

\* hiding the wrist removes the elbow and keeps another joint
C21_Witness ==
  /\ fn.op = "score"
  /\ "left_elbow" \in ScoredJoints(fn.out)
  /\ ScoredWith(fn.in, {LEFT_WRIST}) = ScoredJoints(fn.out) \ {"left_elbow"}
  /\ ScoredWith(fn.in, {LEFT_WRIST}) # {}

\* the joints of the template whose landmarks are all visible
VisibleJoints(in) ==
  {k \in DOMAIN Tpl(in.tpl).angles_deg :
     k \in DOMAIN JOINT_LM => JOINT_LM[k] \cap in.lowVis = {}}

\* C22: coverage is the number of template joints that survived gating
\* over the number of joints of angles_deg: within [0, 1], 0 when no joint
\* survives and 1 exactly when all survive.
C22_CoverageIsSurvivingFraction ==
  fn.op = "score" =>
    /\ fn.out.visibleCount = Cardinality(VisibleJoints(fn.in))
    /\ fn.out.expected = Cardinality(DOMAIN Tpl(fn.in.tpl).angles_deg)
    /\ 0 <= fn.out.visibleCount /\ fn.out.visibleCount <= fn.out.expected
    /\ fn.out.visibleCount = 0 <=> VisibleJoints(fn.in) = {}
    /\ fn.out.visibleCount = fn.out.expected <=>
         VisibleJoints(fn.in) = DOMAIN Tpl(fn.in.tpl).angles_deg

\* two of three joints survive
C22_Witness ==
  /\ fn.op = "score"
  /\ fn.out.visibleCount = 2
  /\ fn.out.expected = 3

\* ------------------------------------------------------------------------
\* wrapDiff
\* ------------------------------------------------------------------------
\* the distance from a to b on the circle of 360 degrees
CircleDistance(a, b) ==
  CHOOSE d \in 0 .. 180 :
    \E n \in -4 .. 4 : a - b = d + 360 * n \/ b - a = d + 360 * n

\* C23: wrapDiff is symmetric, 0 on equal arguments and within [0, 180];
\* wrapDiff(350, 10) = 20.
C23_WrapDiffSymmetricBounded ==
  fn.op = "wrap" =>
    /\ fn.out[1] = fn.out[2]
    /\ fn.out[1] \in 0 .. 180
    /\ fn.in[1] = fn.in[2] => fn.out[1] = 0
    /\ fn.in = <<350, 10>> => fn.out[1] = 20
    /\ fn.out[1] = CircleDistance(fn.in[1], fn.in[2])

\* a negative angle against one above 360, folded back
C23_Witness ==
  /\ fn.op = "wrap"
  /\ fn.in = <<-10, 370>>
  /\ fn.out = <<20, 20>>

\* ------------------------------------------------------------------------
\* the angle smoother
\* ------------------------------------------------------------------------
\* the last n elements of s
LastOf(s, n) == [i \in 1 .. Min(n, Len(s)) |-> s[Len(s) - Min(n, Len(s)) + i]]

\* C24: every joint's buffer holds the most recent samples pushed since the
\* last reset, at most N = 7 of them, in arrival order; push returns the
\* element at index floor((len - 1) / 2) of the sorted buffer and leaves
\* the other joints' buffers as they were.
C24_SmootherWindow ==
  /\ fn.op \in {"push", "reset"} =>
       \A k \in Joints :
         /\ Len(fn.buffers[k]) <= SmootherN
         /\ fn.buffers[k] = LastOf(fn.since[k], SmootherN)
  /\ fn.op = "push" =>
       LET k == fn.in[1]
           buf == fn.buffers[k]
       IN  /\ IsRanked(buf, (Len(buf) - 1) \div 2, fn.out)
           /\ buf[Len(buf)] = fn.in[2]
           /\ \A j \in Joints \ {k} : fn.buffers[j] = fn.before[j]

\* the eighth and ninth sample of a joint pushed the two oldest out, and the
\* median is over the seven left
C24_Witness ==
  /\ fn.op = "push"
  /\ Len(fn.since[fn.in[1]]) = SmootherN + 2
  /\ Len(fn.buffers[fn.in[1]]) = SmootherN
  /\ fn.buffers[fn.in[1]][1] = fn.since[fn.in[1]][3]
  /\ fn.out # fn.in[2]

\* ------------------------------------------------------------------------
\* the coverage penalty
\* ------------------------------------------------------------------------
\* C25 as stated: the score emitted for a frame, the value passed to
\* setScore, is 0 at coverage <= 0.75, the blended score at coverage 1 and
\* never above the blended score.
C25_EmittedIsPenalised ==
  (fn.op = "penalty" /\ fn.in.blend # Null) =>
    /\ 4 * fn.in.visibleCount <= 3 * fn.in.expected => fn.out.ema = 0
    /\ fn.in.visibleCount = fn.in.expected => fn.out.ema = fn.in.blend
    /\ fn.out.ema <= fn.in.blend

\* C25: the penalised score of a frame is the blended score times
\* clamp((coverage - 0.75) / 0.25, 0, 1), rounded: 0 at coverage <= 0.75,
\* the blended score at coverage 1 and never above the blended score.
C25_PenaltyRamp ==
  (fn.op = "penalty" /\ fn.in.blend # Null) =>
    LET v == fn.in.visibleCount
        e == fn.in.expected
    IN  /\ 4 * v <= 3 * e => fn.out.final = 0
        /\ v = e => fn.out.final = fn.in.blend
        /\ fn.out.final <= fn.in.blend
        /\ fn.out.final >= 0
        \* within half a point of blend (4 v - 3 e) / e on the ramp
        /\ (4 * v > 3 * e) =>
             /\ 2 * e * fn.out.final <= 2 * fn.in.blend * (4 * v - 3 * e) + e
             /\ 2 * e * fn.out.final > 2 * fn.in.blend * (4 * v - 3 * e) - e

\* on the ramp: coverage 0.8 leaves a fifth of 100
C25_Witness ==
  /\ fn.op = "penalty"
  /\ fn.in = [blend |-> 100, visibleCount |-> 4, expected |-> 5]
  /\ fn.out.final = 20

\* ------------------------------------------------------------------------
\* overlay colours
\* ------------------------------------------------------------------------
\* the class of an angle difference in units of the tolerance
ColourOf(diff, tol) ==
  IF diff <= tol THEN "good" ELSE IF diff <= 2 * tol THEN "caution" ELSE "poor"

\* C26: a scored joint is drawn good when its angle difference is at most
\* one tolerance, caution up to two tolerances, and poor above.
C26_ColourFollowsError ==
  fn.op = "score" =>
    \A i \in DOMAIN fn.out.rows :
      pickColor(jointErr(fn.out.rows), fn.out.rows[i].joint)
        = ColourOf(fn.out.rows[i].diff, fn.out.rows[i].t)

\* ---- C27 ----
GoNextOps == {"goNextClick", "goNextTimeout"}

\* C27: whenever the session has at least one step, 0 <= currentStep <
\* totalSteps holds after every step of the session (goNext, the ten-second
\* auto-advance, the no-match skip, the session data set from the workout,
\* Restart), and goNext on the last step sets sessionComplete and leaves
\* currentStep unchanged.
C27_StepInRange ==
  [][/\ totalSteps(st') > 0 => st'.currentStep \in 0 .. totalSteps(st') - 1
     /\ (hist'.op \in GoNextOps /\ st.currentStep = totalSteps(st) - 1)
          => /\ st'.sessionComplete
             /\ st'.currentStep = st.currentStep]_vars

\* goNext ran on the last step of a session in which a search without match
\* had skipped a step before
C27_Witness ==
  /\ hist.op \in GoNextOps
  /\ st.sessionComplete
  /\ st.currentStep = totalSteps(st) - 1
  /\ st.failedSet # {}

\* ---- C28 ----
\* the session left alone: the user presses no button
NextUnattended ==
  \/ Render
  \/ \E f \in SessionFrames : hist.frames < MaxFrames /\ Frame(f)
  \/ GoNextTimeout
  \/ Tick
  \/ AutoAdvance
  \/ \E idx \in Steps, c \in Steps : NoMatch(idx, c)
  \/ \E idx \in Steps, c \in Steps : \E t \in SearchResult(idx) : FetchOk(idx, c, t)
  \/ \E idx \in Steps, c \in Steps : FetchFail(idx, c)
  \/ CameraGranted
  \/ CameraDenied

\* React commits every pending render, the one-second and the ten-second
\* intervals fire as long as they are set, the zero-delay timeout runs, and
\* every request is answered
SpecUnattended ==
  /\ Init
  /\ [][NextUnattended]_vars
  /\ WF_vars(Render)
  /\ WF_vars(Tick)
  /\ WF_vars(GoNextTimeout)
  /\ WF_vars(AutoAdvance)
  /\ WF_vars(\E idx \in Steps, c \in Steps : FetchOk(idx, c, FirstResult(idx)))

\* C28: if the user never pauses and the timers keep firing, the session
\* eventually reaches sessionComplete.
C28_SessionCompletes == <>st.sessionComplete

\* ---- C29 ----
\* the exercise whose request was answered in this step
Answered == {i \in Steps : \E c \in Steps : env'.fetches[i][c] < env.fetches[i][c]}

\* the exercises requested anew in this step
Requested == {i \in Steps : \E c \in Steps : env'.fetches[i][c] > env.fetches[i][c]}

OneStepOn(s) == IF s.currentStep + 1 < totalSteps(s) THEN s.currentStep + 1 ELSE 0

\* C29: a search without match for exercise idx advances the session by
\* exactly one step, and only if idx is the step current when the answer
\* arrives; a step that has a template is never skipped, and an exercise
\* marked failed is never requested again.
C29_NoMatchSkipsCurrentOnly ==
  [][/\ hist'.op = "noMatch" =>
          /\ st'.currentStep =
                IF st.currentStep \in Answered THEN OneStepOn(st) ELSE st.currentStep
          /\ st'.currentStep # st.currentStep
                => TemplateAt(st.sessionData, st.currentStep) = NoTpl
     /\ Requested \cap st.failedSet = {}]_vars

\* ---- C30 ----
\* the user paused the countdown and the pause is on the screen
PausedByUser ==
  /\ ~st.isTimerRunning
  /\ ~rendered.s.isTimerRunning
  /\ ~st.sessionComplete

\* goNext of the step current now: its stable score recorded, one step on
\* or the session complete
ExpiryOf(step) ==
  /\ st'.perExerciseScores = SetAt(st.perExerciseScores, step, aggregateScore(ref.scoreBuffer))
  /\ IF step + 1 < totalSteps(st)
     THEN st'.currentStep = step + 1 /\ st'.sessionComplete = st.sessionComplete
     ELSE st'.currentStep = step /\ st'.sessionComplete

\* a tick takes one second off and the one that reaches 0 calls goNext once,
\* with the step current at that moment
CountdownStep ==
  /\ st'.timeLeftSec \in 0 .. st'.stepDurationSec
  /\ hist'.op = "tick" =>
       /\ st'.timeLeftSec = st.timeLeftSec - 1
       /\ env'.pendingGoNext =
             IF st'.timeLeftSec = 0 THEN <<st.currentStep>> ELSE <<>>
  /\ hist'.op = "goNextTimeout" =>
       /\ env.pendingGoNext = <<st.currentStep>>
       /\ env'.pendingGoNext = <<>>
       /\ ExpiryOf(st.currentStep)

\* the time left stays as it is during a pause (unless the user presses Next)
PauseStep ==
  (PausedByUser /\ hist.op # "goNextClick") => st'.timeLeftSec = st.timeLeftSec

\* C30: while the countdown runs, timeLeftSec stays within
\* [0, stepDurationSec] and decreases by one per tick; the tick that reaches
\* 0 calls goNext exactly once, with the step current at that moment, which
\* records that step's stable score and advances by one step or completes
\* the session; while paused, timeLeftSec does not change.
C30_CountdownAndPause == [][CountdownStep /\ PauseStep]_vars

\* C30, the countdown alone: this part holds
C30_Countdown == [][CountdownStep]_vars

====
